---- MODULE Spec2Model ----
(***************************************************************************)
(* A model of the balanced binary search tree of betterbst.py (BetterBST:  *)
(* sorted, mid-first construction and the pruned range filter) and of the  *)
(* block checklist of minecraft_checklist.py that is layered on it.        *)
(*                                                                         *)
(* A tree node is the tuple <<key, item, left, right>>; an absent child    *)
(* (Python's None) is the empty tuple.  A tree object is the record        *)
(* [root, length] of the fields of the BinarySearchTree.  While the        *)
(* constructor runs the object is carried with history fields: the keys    *)
(* handed to __setitem__ and the indices chosen as mid, in call order, and *)
(* the number of open frames of the recursion.                             *)
(***************************************************************************)
EXTENDS Integers, Sequences, FiniteSets, TLC

\* ------------------------------------------------------------------ bounds
\* Keys of the generated inputs and of the point operations are 1..MaxKey.
MaxKey == 3
\* Longest generated input sequence of BetterBST(elements).
MaxLen == 3
\* Longest generated permutation input (distinct keys 1..n, n <= MaxPerm).
MaxPerm == 4
\* Values of the items inside generated blocks are 1..MaxValue.
MaxValue == 2
\* Longest generated block array of MinecraftChecklist(blocks).
MaxBlocks == 2
\* Most calls of Miner.mine in one run.
MaxMined == 3
\* Most calls of Miner.clear_inventory in one run.
MaxCleared == 2
\* Most neighbours of one cave node.
MaxDegree == 2
\* Largest time_in_seconds given to profit_mining; the smallest is -1.
MaxTime == 3

\* ------------------------------------------------------------------ nodes
None == <<>>

TreeNode(key, item, left, right) == <<key, item, left, right>>

Key(node) == node[1]

Item(node) == node[2]

Left(node) == node[3]

Right(node) == node[4]

\* ------------------------------------------- the ordered-map substrate
\* BinarySearchTree.__init__: the empty tree.
EmptyTree == [root |-> None, length |-> 0]

RECURSIVE contains_aux(_, _)
\* BinarySearchTree.__contains__ / get_tree_node_by_key: key lookup.
contains_aux(current, key) ==
    IF current = None THEN FALSE
    ELSE IF key = Key(current) THEN TRUE
    ELSE IF key < Key(current) THEN contains_aux(Left(current), key)
    ELSE contains_aux(Right(current), key)

RECURSIVE getitem_aux(_, _)
\* BinarySearchTree.__getitem__ on a key that is present.
getitem_aux(current, key) ==
    IF key = Key(current) THEN Item(current)
    ELSE IF key < Key(current) THEN getitem_aux(Left(current), key)
    ELSE getitem_aux(Right(current), key)

RECURSIVE insert_aux_flipped(_, _, _)
\* insert_aux descending to the wrong side for larger keys.
insert_aux_flipped(current, key, item) ==
    IF current = None THEN TreeNode(key, item, None, None)
    ELSE IF key < Key(current)
    THEN TreeNode(Key(current), Item(current),
                  insert_aux_flipped(Left(current), key, item), Right(current))
    ELSE IF key > Key(current)
    THEN TreeNode(Key(current), Item(current),
                  insert_aux_flipped(Left(current), key, item), Right(current))
    ELSE TreeNode(key, item, Left(current), Right(current))

RECURSIVE insert_aux(_, _, _)
\* BinarySearchTree.insert_aux: a new leaf at the place the search ends, or
\* the item of the node that already holds the key replaced.
insert_aux(current, key, item) ==
    IF current = None THEN TreeNode(key, item, None, None)
    ELSE IF key < Key(current)
    THEN TreeNode(Key(current), Item(current),
                  insert_aux(Left(current), key, item), Right(current))
    ELSE IF key > Key(current)
    THEN TreeNode(Key(current), Item(current),
                  Left(current), insert_aux(Right(current), key, item))
    ELSE TreeNode(key, item, Left(current), Right(current))

\* BinarySearchTree.__setitem__: self[key] = item.  length counts new nodes.
setitem(self, key, item) ==
    [root     |-> insert_aux(self.root, key, item),
     length   |-> IF contains_aux(self.root, key) THEN self.length
                  ELSE self.length + 1]

RECURSIVE get_minimal(_)
\* BinarySearchTree.get_minimal: the leftmost node of a subtree.
get_minimal(current) ==
    IF Left(current) = None THEN current ELSE get_minimal(Left(current))

\* BinarySearchTree.get_successor: the smallest node of the right subtree.
get_successor(current) ==
    IF Right(current) = None THEN None ELSE get_minimal(Right(current))

RECURSIVE delete_aux(_, _)
\* BinarySearchTree.delete_aux on a key that is present: a leaf is removed,
\* a node with one child is replaced by it, a node with two children takes
\* the key and item of its successor, which is then deleted on the right.
delete_aux(current, key) ==
    IF key < Key(current)
    THEN TreeNode(Key(current), Item(current),
                  delete_aux(Left(current), key), Right(current))
    ELSE IF key > Key(current)
    THEN TreeNode(Key(current), Item(current),
                  Left(current), delete_aux(Right(current), key))
    ELSE IF Left(current) = None /\ Right(current) = None THEN None
    ELSE IF Left(current) = None THEN Right(current)
    ELSE IF Right(current) = None THEN Left(current)
    ELSE LET succ == get_successor(current)
         IN TreeNode(Key(succ), Item(succ), Left(current),
                     delete_aux(Right(current), Key(succ)))

\* BinarySearchTree.__delitem__ on a key that is present.
delitem(self, key) ==
    [root     |-> delete_aux(self.root, key),
     length   |-> self.length - 1]

RECURSIVE inorder(_)
\* BinarySearchTree.__iter__: the (key, item) pairs in in-order.
inorder(current) ==
    IF current = None THEN <<>>
    ELSE inorder(Left(current)) \o <<<<Key(current), Item(current)>>>>
         \o inorder(Right(current))

\* ------------------------------------------------------------ merge sort
RECURSIVE merge(_, _)
\* algorithms.mergesort.merge on the first component: the left run wins ties.
merge(l1, l2) ==
    IF l1 = <<>> THEN l2
    ELSE IF l2 = <<>> THEN l1
    ELSE IF Head(l1)[1] <= Head(l2)[1] THEN <<Head(l1)>> \o merge(Tail(l1), l2)
    ELSE <<Head(l2)>> \o merge(l1, Tail(l2))

RECURSIVE mergesort(_)
\* algorithms.mergesort.mergesort(elements, lambda x: x[0]).
mergesort(elements) ==
    IF Len(elements) <= 1 THEN elements
    ELSE LET break == (Len(elements) + 1) \div 2
         IN merge(mergesort(SubSeq(elements, 1, break)),
                  mergesort(SubSeq(elements, break + 1, Len(elements))))

\* --------------------------------------------------------------- BetterBST
\* BetterBST.__sort_elements.
sort_elements(elements) == mergesort(elements)

\* The object under construction: the tree, and three history fields.
\* inserted lists the keys handed to __setitem__ and mids the indices
\* chosen as mid, both in call order; depth counts the frames of
\* _build_subtree_aux that are open and deepest is the most it has been.
NewSelf ==
    [tree |-> EmptyTree, inserted |-> <<>>, mids |-> <<>>, depth |-> 0, deepest |-> 0]

\* Entering a call of _build_subtree_aux.
call(self) ==
    [self EXCEPT !.depth = @ + 1,
                 !.deepest = IF self.depth + 1 > @ THEN self.depth + 1 ELSE @]

\* Returning from a call of _build_subtree_aux.
return(self) == [self EXCEPT !.depth = @ - 1]

\* self[key] = item for the pair at index mid.
place(self, key, item, mid) ==
    [self EXCEPT !.tree = setitem(@, key, item),
                 !.inserted = Append(@, key),
                 !.mids = Append(@, mid)]

RECURSIVE _build_subtree_aux_upper(_, _, _, _)
\* _build_subtree_aux taking the upper-middle index of the range.
_build_subtree_aux_upper(self, elements, start, end) ==
    LET called == call(self)
    IN IF start > end THEN return(called)
       ELSE LET mid    == (start + end + 1) \div 2
                key    == elements[mid + 1][1]
                item   == elements[mid + 1][2]
                placed == place(called, key, item, mid)
                lower  == _build_subtree_aux_upper(placed, elements, start, mid - 1)
                upper  == _build_subtree_aux_upper(lower, elements, mid + 1, end)
            IN return(upper)

RECURSIVE _build_subtree_aux_late(_, _, _, _)
\* _build_subtree_aux inserting the middle pair after the lower range
\* instead of before it.
_build_subtree_aux_late(self, elements, start, end) ==
    LET called == call(self)
    IN IF start > end THEN return(called)
       ELSE LET mid    == (start + end) \div 2
                key    == elements[mid + 1][1]
                item   == elements[mid + 1][2]
                lower  == _build_subtree_aux_late(called, elements, start, mid - 1)
                placed == place(lower, key, item, mid)
                upper  == _build_subtree_aux_late(placed, elements, mid + 1, end)
            IN return(upper)

RECURSIVE _build_subtree_aux_skewed(_, _, _, _)
\* _build_subtree_aux taking the first index of the range as mid.
_build_subtree_aux_skewed(self, elements, start, end) ==
    LET called == call(self)
    IN IF start > end THEN return(called)
       ELSE LET mid    == start
                key    == elements[mid + 1][1]
                item   == elements[mid + 1][2]
                placed == place(called, key, item, mid)
                lower  == _build_subtree_aux_skewed(placed, elements, start, mid - 1)
                upper  == _build_subtree_aux_skewed(lower, elements, mid + 1, end)
            IN return(upper)

RECURSIVE _build_subtree_aux(_, _, _, _)
\* BetterBST._build_subtree_aux; start and end are 0-based as in the code,
\* elements[mid] of the code is elements[mid + 1] of the 1-based sequence.
\* self is the object under construction.
_build_subtree_aux(self, elements, start, end) ==
    LET called == call(self)
    IN IF start > end THEN return(called)
       ELSE LET mid    == (start + end) \div 2
                key    == elements[mid + 1][1]
                item   == elements[mid + 1][2]
                placed == place(called, key, item, mid)
                lower  == _build_subtree_aux(placed, elements, start, mid - 1)
                upper  == _build_subtree_aux(lower, elements, mid + 1, end)
            IN return(upper)

\* __build_balanced_tree stopping one index short of the last element.
build_balanced_tree_short(self, elements) ==
    _build_subtree_aux(self, elements, 0, Len(elements) - 2)

\* BetterBST.__build_balanced_tree.
build_balanced_tree(self, elements) ==
    _build_subtree_aux(self, elements, 0, Len(elements) - 1)

\* What a constructor call leaves: the tree, the history of the build, and
\* the exception it ended with.
Constructed(built, raised) ==
    [tree |-> built.tree, inserted |-> built.inserted, mids |-> built.mids,
     depth |-> built.depth, deepest |-> built.deepest, raised |-> raised]

\* __init__ with a guard that rejects an empty input.
BetterBST_guarded(elements) ==
    IF elements = <<>>
    THEN Constructed(NewSelf, "ValueError")
    ELSE Constructed(build_balanced_tree(NewSelf, sort_elements(elements)), "none")

\* BetterBST.__init__: the tree it leaves, the history of the build, and
\* the exception it ends with ("none": it returns normally; no statement of
\* the constructor raises).
BetterBST(elements) ==
    Constructed(build_balanced_tree(NewSelf, sort_elements(elements)), "none")

RECURSIVE _filter_traverse_aux_noprune(_, _, _, _)
\* _filter_traverse_aux entering the left subtree whatever filter_func1 says.
_filter_traverse_aux_noprune(current, filter_func1, filter_func2, result) ==
    IF current = None THEN result
    ELSE LET entered == [result EXCEPT !.visited = Append(@, Key(current))]
             lower   == _filter_traverse_aux_noprune(Left(current), filter_func1,
                                 filter_func2, entered)
             here    == IF Key(current) \in filter_func1 /\ Key(current) \in filter_func2
                        THEN [lower EXCEPT !.items =
                                 Append(@, <<Key(current), Item(current)>>)]
                        ELSE lower
         IN IF Key(current) \in filter_func2
            THEN _filter_traverse_aux_noprune(Right(current), filter_func1, filter_func2, here)
            ELSE here

RECURSIVE _filter_traverse_aux_onetest(_, _, _, _)
\* _filter_traverse_aux appending a node on filter_func1 alone.
_filter_traverse_aux_onetest(current, filter_func1, filter_func2, result) ==
    IF current = None THEN result
    ELSE LET entered == [result EXCEPT !.visited = Append(@, Key(current))]
             lower   == IF Key(current) \in filter_func1
                        THEN _filter_traverse_aux_onetest(Left(current), filter_func1,
                                 filter_func2, entered)
                        ELSE entered
             here    == IF Key(current) \in filter_func1
                        THEN [lower EXCEPT !.items =
                                 Append(@, <<Key(current), Item(current)>>)]
                        ELSE lower
         IN IF Key(current) \in filter_func2
            THEN _filter_traverse_aux_onetest(Right(current), filter_func1, filter_func2, here)
            ELSE here

RECURSIVE _filter_traverse_aux_overprune(_, _, _, _)
\* _filter_traverse_aux entering the right subtree only where the node
\* itself qualifies.
_filter_traverse_aux_overprune(current, filter_func1, filter_func2, result) ==
    IF current = None THEN result
    ELSE LET entered == [result EXCEPT !.visited = Append(@, Key(current))]
             lower   == IF Key(current) \in filter_func1
                        THEN _filter_traverse_aux_overprune(Left(current), filter_func1,
                                 filter_func2, entered)
                        ELSE entered
             here    == IF Key(current) \in filter_func1 /\ Key(current) \in filter_func2
                        THEN [lower EXCEPT !.items =
                                 Append(@, <<Key(current), Item(current)>>)]
                        ELSE lower
         IN IF Key(current) \in filter_func1 /\ Key(current) \in filter_func2
            THEN _filter_traverse_aux_overprune(Right(current), filter_func1, filter_func2, here)
            ELSE here

RECURSIVE _filter_traverse_aux(_, _, _, _)
\* BetterBST._filter_traverse_aux.  A predicate is the set of keys it is
\* true of, so filter_func1(current.key) is Key(current) \in filter_func1.
\* result is [items, visited]: items is the ArrayList the code appends to,
\* visited a history field listing the keys of the nodes the call was
\* entered with, in call order.
_filter_traverse_aux(current, filter_func1, filter_func2, result) ==
    IF current = None THEN result
    ELSE LET entered == [result EXCEPT !.visited = Append(@, Key(current))]
             lower   == IF Key(current) \in filter_func1
                        THEN _filter_traverse_aux(Left(current), filter_func1,
                                 filter_func2, entered)
                        ELSE entered
             here    == IF Key(current) \in filter_func1 /\ Key(current) \in filter_func2
                        THEN [lower EXCEPT !.items =
                                 Append(@, <<Key(current), Item(current)>>)]
                        ELSE lower
         IN IF Key(current) \in filter_func2
            THEN _filter_traverse_aux(Right(current), filter_func1, filter_func2, here)
            ELSE here

\* BetterBST.filter_keys.
filter_keys(self, filter_func1, filter_func2) ==
    _filter_traverse_aux(self.root, filter_func1, filter_func2,
                         [items |-> <<>>, visited |-> <<>>])

\* ------------------------------------------------------------------ Miner
\* LinkedList(): the list objects live in a heap, a sequence indexed by
\* object identity; a new list is a new, empty entry at its end.
LinkedList(heap) == Append(heap, <<>>)

\* LinkedList.append(item) on the list object at identity id.
append(heap, id, item) == [heap EXCEPT ![id] = Append(@, item)]

\* Miner.__init__: inventory is a new LinkedList.  returned holds what the
\* latest call returned (0 stands for None).
Miner == [heap |-> LinkedList(<<>>), inventory |-> 1, returned |-> 0]

\* Miner.mine.
mine(self, block) ==
    [self EXCEPT !.heap = append(self.heap, self.inventory, block.item),
                 !.returned = 0]

\* clear_inventory emptying nothing: it returns the inventory list and
\* keeps it as the inventory.
clear_inventory_shared(self) ==
    [self EXCEPT !.returned = self.inventory]

\* Miner.clear_inventory: the old list object is returned and a new one
\* takes its place.
clear_inventory(self) ==
    LET old_inventory == self.inventory
    IN [self EXCEPT !.heap = LinkedList(self.heap),
                    !.inventory = Len(self.heap) + 1,
                    !.returned = old_inventory]

\* ------------------------------------------- NotMinecraft.dfs_explore_cave
\* The locals of a call are the record [neighbours, visited, blocks_found,
\* stack, order]: neighbours maps a node's name to the names of its
\* neighbours[0..]; visited is the key set of the LinearProbeTable; the top
\* of the LinkedStack is the end of stack; order is a history field, the
\* names of the nodes processed, in processing order.
CaveNames == {"entrance", "tunnel", "shaft"}

Entrance == "entrance"

\* node.blocks: every node has blocks of its own.
NodeBlocks(name) ==
    CASE name = "entrance" -> <<"stone">>
      [] name = "tunnel"   -> <<"iron", "gold">>
      [] name = "shaft"    -> <<"diamond">>

\* stack.push(node) and stack.pop().
push(stack, node) == Append(stack, node)

top(stack) == stack[Len(stack)]

pop(stack) == SubSeq(stack, 1, Len(stack) - 1)

RECURSIVE push_unvisited_forward(_, _, _)
\* The neighbour loop running from index 0 upward.
push_unvisited_forward(c, neighbours, i) ==
    IF i = 0 THEN c
    ELSE LET neighbor == neighbours[Len(neighbours) - i + 1]
             pushed   == IF neighbor \notin c.visited
                         THEN [c EXCEPT !.stack = push(@, neighbor)]
                         ELSE c
         IN push_unvisited_forward(pushed, neighbours, i - 1)

RECURSIVE push_unvisited(_, _, _)
\* The loop over range(len(neighbours) - 1, -1, -1), with i neighbours
\* still to look at: neighbours[i - 1] of the code is neighbours[i] here.
push_unvisited(c, neighbours, i) ==
    IF i = 0 THEN c
    ELSE LET neighbor == neighbours[i]
             pushed   == IF neighbor \notin c.visited
                         THEN [c EXCEPT !.stack = push(@, neighbor)]
                         ELSE c
         IN push_unvisited(pushed, neighbours, i - 1)

\* What processing a popped node does: mark it, collect its blocks, push
\* its unvisited neighbours.
process(c, current_node) ==
    LET marked == [c EXCEPT !.visited = @ \cup {current_node},
                            !.order = Append(@, current_node),
                            !.blocks_found = @ \o NodeBlocks(current_node)]
    IN push_unvisited(marked, c.neighbours[current_node],
                      Len(c.neighbours[current_node]))

\* One iteration of the while loop that processes the popped node without
\* asking whether it was visited.
dfs_iterate_unchecked(c) ==
    process([c EXCEPT !.stack = pop(@)], top(c.stack))

\* One iteration of the while loop of dfs_explore_cave.
dfs_iterate(c) ==
    LET current_node == top(c.stack)
        popped       == [c EXCEPT !.stack = pop(@)]
    IN IF current_node \notin c.visited
       THEN process(popped, current_node)
       ELSE popped

\* ------------------------------------------------------ MinecraftChecklist
\* MinecraftBlock.ratio: item.value / hardness.  The generated hardnesses
\* are 1 and 2, so every quotient is a whole number of halves, which a float
\* holds exactly; the model keeps the quotient as that number of halves,
\* which preserves both the order and the equality of ratios.
ratio(block) == (2 * block.item.value) \div block.hardness

\* MinecraftChecklist.__init__: the (ratio, block) pairs handed to BetterBST.
checklist_elements(blocks) ==
    [i \in 1 .. Len(blocks) |-> <<ratio(blocks[i]), blocks[i]>>]

\* MinecraftChecklist.__contains__: the block stored under the item's
\* ratio has the item's name (MinecraftBlock.__eq__); a KeyError is False.
contains(self, item) ==
    IF contains_aux(self.root, ratio(item))
    THEN getitem_aux(self.root, ratio(item)).name = item.name
    ELSE FALSE

\* add_block without the test for a stored key.
add_block_overwrite(self, block) == setitem(self, ratio(block), block)

\* MinecraftChecklist.add_block on self.checklist.
add_block(self, block) ==
    IF ~contains_aux(self.root, ratio(block))
    THEN setitem(self, ratio(block), block)
    ELSE self

\* MinecraftChecklist.remove_block on self.checklist.
remove_block(self, block) ==
    IF contains_aux(self.root, ratio(block))
    THEN delitem(self, ratio(block))
    ELSE self

\* The ratios a stored or a queried block can have.
RatioDomain == 1 .. 2 * (MaxValue + 1)

Min(a, b) == IF a <= b THEN a ELSE b

Max(a, b) == IF a >= b THEN a ELSE b

\* get_optimal_blocks with a lower bound that lets its own ratio through.
get_optimal_blocks_inclusive(self, block1, block2) ==
    LET lower        == Min(ratio(block1), ratio(block2))
        upper        == Max(ratio(block1), ratio(block2))
        filter_func1 == {k \in RatioDomain : k >= lower}
        filter_func2 == {k \in RatioDomain : k < upper}
        filtered     == filter_keys(self, filter_func1, filter_func2).items
    IN [i \in 1 .. Len(filtered) |-> filtered[i][2]]

\* MinecraftChecklist.get_optimal_blocks on self.checklist.
get_optimal_blocks(self, block1, block2) ==
    LET lower        == Min(ratio(block1), ratio(block2))
        upper        == Max(ratio(block1), ratio(block2))
        filter_func1 == {k \in RatioDomain : k > lower}
        filter_func2 == {k \in RatioDomain : k < upper}
        filtered     == filter_keys(self, filter_func1, filter_func2).items
    IN [i \in 1 .. Len(filtered) |-> filtered[i][2]]

\* ------------------------------------------------------------------ state
VARIABLES
    pc,        \* "new" before the constructor has run, "ready" after it
               \* returned, "failed" after it raised
    input,     \* the argument the constructor is about to be called with
    tree,      \* the tree object
    last,      \* the latest call: its name, arguments and outcome
    miner,     \* the Miner and the lists it has created and handed out
    cave,      \* a run of dfs_explore_cave: the graph and the loop's locals
    mining     \* a run of profit_mining: its arguments and the loop's locals

vars == <<pc, input, tree, last, miner, cave, mining>>

\* The value of a component that the machine at hand does not use.
Idle == [pc |-> "idle"]

\* The components outside the tree and the checklist.
others == <<miner, cave, mining>>

Unused == miner = Idle /\ cave = Idle /\ mining = Idle

Keys == 1 .. MaxKey

Items == {"a", "b"}

RECURSIVE SeqsUpTo(_, _)
\* All sequences over S of length at most n.
SeqsUpTo(S, n) ==
    IF n = 0 THEN {<<>>}
    ELSE LET shorter == SeqsUpTo(S, n - 1)
         IN shorter \cup {Append(s, x) : s \in {t \in shorter : Len(t) = n - 1}, x \in S}

\* The input of the concrete scenario.
ScenarioElements == <<<<5, "e">>, <<1, "a">>, <<3, "c">>, <<2, "b">>, <<4, "d">>>>

ItemOfKey(k) == <<"a", "b", "c", "d", "e", "f", "g", "h">>[k]

\* Every ordering of the keys 1..n, each key with its own item.
KeyOrderings(n) ==
    {[i \in 1 .. n |-> <<p[i], ItemOfKey(p[i])>>] :
        p \in {q \in [1 .. n -> 1 .. n] : \A i, j \in 1 .. n : q[i] = q[j] => i = j}}

Inputs ==
    SeqsUpTo(Keys \X Items, MaxLen)
        \cup UNION {KeyOrderings(n) : n \in 1 .. MaxPerm}
        \cup {ScenarioElements}

Init ==
    /\ pc = "new"
    /\ input \in Inputs
    /\ tree = EmptyTree
    /\ last = [op |-> "none"]
    /\ Unused

\* BetterBST(elements).
Build ==
    /\ pc = "new"
    /\ LET built == BetterBST(input)
       IN /\ pc' = IF built.raised = "none" THEN "ready" ELSE "failed"
          /\ tree' = built.tree
          /\ last' = [op |-> "__init__", elements |-> input,
                      sorted |-> sort_elements(input),
                      inserted |-> built.inserted, mids |-> built.mids,
                      depth |-> built.depth, deepest |-> built.deepest,
                      raised |-> built.raised]
    /\ input' = <<>>
    /\ UNCHANGED others

\* self[key] = item on the built tree.
SetItem(key, item) ==
    /\ pc = "ready"
    /\ tree' = setitem(tree, key, item)
    /\ last' = [op |-> "__setitem__", key |-> key, item |-> item]
    /\ UNCHANGED <<pc, input, miner, cave, mining>>

\* del self[key] on the built tree; an absent key raises KeyError and
\* leaves the tree as it was.
DelItem(key) ==
    /\ pc = "ready"
    /\ IF contains_aux(tree.root, key)
       THEN /\ tree' = delitem(tree, key)
            /\ last' = [op |-> "__delitem__", key |-> key, raised |-> "none"]
       ELSE /\ tree' = tree
            /\ last' = [op |-> "__delitem__", key |-> key, raised |-> "KeyError"]
    /\ UNCHANGED <<pc, input, miner, cave, mining>>

\* The keys a predicate is asked about.
KeyDomain == 1 .. 5 \cup Keys \cup 1 .. MaxPerm

\* k -> k > c and k -> k < c, as the sets of keys they hold of.
Above(c) == {k \in KeyDomain : k > c}

Below(c) == {k \in KeyDomain : k < c}

\* The bounds the generated range queries use.
Thresholds == {0} \cup KeyDomain \cup {k + 1 : k \in KeyDomain} \cup {10, 20}

\* The monotone predicates: false below a bound and true above it, and
\* true below a bound and false from it upward.
LowerPredicates == {Above(c) : c \in Thresholds}

UpperPredicates == {Below(c) : c \in Thresholds}

\* self.filter_keys(filter_func1, filter_func2).
FilterKeys(f1, f2) ==
    /\ pc = "ready"
    /\ last' = [op |-> "filter_keys", f1 |-> f1, f2 |-> f2,
                out |-> filter_keys(tree, f1, f2)]
    /\ UNCHANGED <<pc, input, tree, miner, cave, mining>>

Next ==
    \/ Build
    \/ \E key \in Keys, item \in Items : SetItem(key, item)
    \/ \E key \in Keys : DelItem(key)
    \/ \E f1 \in LowerPredicates, f2 \in UpperPredicates : FilterKeys(f1, f2)

Spec == Init /\ [][Next]_vars

\* ------------------------------------- the tree under arbitrary predicates
\* Each key with the item of its own.
OwnPairs == {<<k, ItemOfKey(k)>> : k \in Keys}

ArbitraryInit ==
    /\ pc = "new"
    /\ input \in SeqsUpTo(OwnPairs, MaxLen)
    /\ tree = EmptyTree
    /\ last = [op |-> "none"]
    /\ Unused

\* filter_keys is called with any two predicates on the keys, monotone or
\* not: each is any set of keys.
ArbitraryNext ==
    \/ Build
    \/ \E key \in Keys : SetItem(key, ItemOfKey(key))
    \/ \E key \in Keys : DelItem(key)
    \/ \E f1, f2 \in SUBSET Keys : FilterKeys(f1, f2)

ArbitrarySpec == ArbitraryInit /\ [][ArbitraryNext]_vars

\* ------------------------------------------------- the checklist's machine
Hardnesses == {1, 2}

\* MinecraftBlock(name, description, hardness, MinecraftItem(name, ..., value));
\* a block and its item are named after their hardness and value.
Block(h, v) ==
    [name |-> <<"block", h, v>>, hardness |-> h,
     item |-> [name |-> <<"item", h, v>>, value |-> v]]

Blocks == {Block(h, v) : h \in Hardnesses, v \in 1 .. MaxValue}

ChecklistInit ==
    /\ pc = "new"
    /\ input \in SeqsUpTo(Blocks, MaxBlocks)
    /\ tree = EmptyTree
    /\ last = [op |-> "none"]
    /\ Unused

\* MinecraftChecklist(blocks).
NewChecklist ==
    /\ pc = "new"
    /\ LET built == BetterBST(checklist_elements(input))
       IN /\ pc' = IF built.raised = "none" THEN "ready" ELSE "failed"
          /\ tree' = built.tree
          /\ last' = [op |-> "__init__", blocks |-> input, raised |-> built.raised]
    /\ input' = <<>>
    /\ UNCHANGED others

\* checklist.add_block(block).
AddBlock(block) ==
    /\ pc = "ready"
    /\ tree' = add_block(tree, block)
    /\ last' = [op |-> "add_block", block |-> block]
    /\ UNCHANGED <<pc, input, miner, cave, mining>>

\* checklist.remove_block(block).
RemoveBlock(block) ==
    /\ pc = "ready"
    /\ tree' = remove_block(tree, block)
    /\ last' = [op |-> "remove_block", block |-> block]
    /\ UNCHANGED <<pc, input, miner, cave, mining>>

\* checklist.get_optimal_blocks(block1, block2).
GetOptimalBlocks(block1, block2) ==
    /\ pc = "ready"
    /\ last' = [op |-> "get_optimal_blocks", block1 |-> block1, block2 |-> block2,
                out |-> get_optimal_blocks(tree, block1, block2)]
    /\ UNCHANGED <<pc, input, tree, miner, cave, mining>>

ChecklistNext ==
    \/ NewChecklist
    \/ \E block \in Blocks : AddBlock(block)
    \/ \E block \in Blocks : RemoveBlock(block)
    \/ \E block1, block2 \in Blocks : GetOptimalBlocks(block1, block2)

ChecklistSpec == ChecklistInit /\ [][ChecklistNext]_vars

\* --------------------------------------------------- a run of the cave DFS
\* Every cave over the three names: each node has up to MaxDegree
\* neighbours, in any order, repeats and the node itself included.
Caves == [CaveNames -> SeqsUpTo(CaveNames, MaxDegree)]

CaveInit ==
    /\ pc = "idle"
    /\ input = <<>>
    /\ tree = EmptyTree
    /\ last = [op |-> "none"]
    /\ miner = Idle
    /\ mining = Idle
    /\ cave \in {[pc |-> "call", neighbours |-> g, visited |-> {},
                  blocks_found |-> <<>>, stack |-> <<>>, order |-> <<>>] :
                    g \in Caves}

\* The statements before the loop: empty table and list, the entrance on
\* the stack.
DfsStart ==
    /\ cave.pc = "call"
    /\ cave' = [cave EXCEPT !.pc = "loop", !.stack = push(@, Entrance)]
    /\ UNCHANGED <<pc, input, tree, last, miner, mining>>

\* One iteration of the while loop.
DfsIterate ==
    /\ cave.pc = "loop"
    /\ cave.stack # <<>>
    /\ cave' = dfs_iterate(cave)
    /\ UNCHANGED <<pc, input, tree, last, miner, mining>>

\* The loop's exit and the return of blocks_found.
DfsReturn ==
    /\ cave.pc = "loop"
    /\ cave.stack = <<>>
    /\ cave' = [cave EXCEPT !.pc = "done"]
    /\ UNCHANGED <<pc, input, tree, last, miner, mining>>

CaveNext == DfsStart \/ DfsIterate \/ DfsReturn

\* The call runs on its own thread of control and is never suspended for
\* good: a step that can be taken is taken.
CaveSpec == CaveInit /\ [][CaveNext]_vars /\ WF_vars(CaveNext)

\* ------------------------------------------------- a run of profit_mining
\* mining is the record of the call: its arguments blocks and
\* time_in_seconds, the locals block_heap and remaining_time, and two
\* history fields: considered lists what get_max returned and mined what
\* was handed to miner.mine, both as positions in blocks, in call order.
\* block_heap is the set of positions of blocks still in the MaxHeap.
Times == -1 .. MaxTime

\* MaxHeap.heapify(blocks, len(blocks)).
heapify(blocks) == 1 .. Len(blocks)

\* The entries get_max may return: those no other entry is greater than
\* by MinecraftBlock.__gt__, which compares ratios.
Maxima(blocks, block_heap) ==
    {i \in block_heap : \A j \in block_heap : ratio(blocks[j]) <= ratio(blocks[i])}

\* The loop body mining the block whether or not its hardness fits the
\* remaining time.
mining_iterate_unchecked(m, i) ==
    LET block == m.blocks[i]
        got   == [m EXCEPT !.block_heap = @ \ {i}, !.considered = Append(@, i)]
        spent == [got EXCEPT !.remaining_time = @ - block.hardness,
                             !.mined = Append(@, i)]
    IN IF spent.remaining_time = 0 THEN [spent EXCEPT !.pc = "done"] ELSE spent

\* One iteration of the while loop of profit_mining, in which get_max
\* returns the entry at position i.
mining_iterate(m, i) ==
    LET block == m.blocks[i]
        got   == [m EXCEPT !.block_heap = @ \ {i}, !.considered = Append(@, i)]
    IN IF block.hardness <= m.remaining_time
       THEN LET spent == [got EXCEPT !.remaining_time = @ - block.hardness,
                                     !.mined = Append(@, i)]
            IN IF spent.remaining_time = 0 THEN [spent EXCEPT !.pc = "done"] ELSE spent
       ELSE got

MiningInit ==
    /\ pc = "idle"
    /\ input = <<>>
    /\ tree = EmptyTree
    /\ last = [op |-> "none"]
    /\ miner = [pc |-> "ready", self |-> Miner, handed |-> <<>>, since |-> <<>>]
    /\ cave = Idle
    /\ mining \in {[pc |-> "call", blocks |-> b, time_in_seconds |-> t,
                    block_heap |-> {}, remaining_time |-> 0,
                    considered |-> <<>>, mined |-> <<>>] :
                      b \in SeqsUpTo(Blocks, MaxBlocks), t \in Times}

\* The statements before the loop.
MiningStart ==
    /\ mining.pc = "call"
    /\ mining' = [mining EXCEPT !.pc = "loop",
                                !.block_heap = heapify(mining.blocks),
                                !.remaining_time = mining.time_in_seconds]
    /\ UNCHANGED <<pc, input, tree, last, miner, cave>>

\* One iteration of the while loop; the block is handed to miner.mine when
\* the iteration mined it.
MiningIterate ==
    /\ mining.pc = "loop"
    /\ mining.remaining_time > 0
    /\ mining.block_heap # {}
    /\ \E i \in Maxima(mining.blocks, mining.block_heap) :
          /\ mining' = mining_iterate(mining, i)
          /\ miner' = IF mining'.mined # mining.mined
                      THEN [miner EXCEPT !.self = mine(@, mining.blocks[i]),
                                         !.since = Append(@, mining.blocks[i].item)]
                      ELSE miner
    /\ UNCHANGED <<pc, input, tree, last, cave>>

\* The loop condition fails and the method returns.
MiningReturn ==
    /\ mining.pc = "loop"
    /\ ~(mining.remaining_time > 0 /\ mining.block_heap # {})
    /\ mining' = [mining EXCEPT !.pc = "done"]
    /\ UNCHANGED <<pc, input, tree, last, miner, cave>>

MiningNext == MiningStart \/ MiningIterate \/ MiningReturn

\* The call is never suspended for good.
MiningSpec == MiningInit /\ [][MiningNext]_vars /\ WF_vars(MiningNext)

\* ------------------------------------------------------ the miner's machine
\* miner is [pc, self, handed, since]: self is the Miner object with its
\* heap of lists; handed and since are history fields: handed lists, per
\* clear_inventory call, the identity of the list it returned and the items
\* mined between the call before and this one; since lists the items
\* mined after the latest clear_inventory.
MinerInit ==
    /\ pc = "idle"
    /\ input = <<>>
    /\ tree = EmptyTree
    /\ last = [op |-> "none"]
    /\ miner = [pc |-> "ready", self |-> Miner, handed |-> <<>>, since |-> <<>>]
    /\ cave = Idle
    /\ mining = Idle

RECURSIVE TotalLen(_)
\* The number of items in all the lists of a heap.
TotalLen(heap) ==
    IF heap = <<>> THEN 0 ELSE Len(Head(heap)) + TotalLen(Tail(heap))

\* miner.mine(block).
Mine(block) ==
    /\ miner.pc = "ready"
    /\ TotalLen(miner.self.heap) < MaxMined
    /\ miner' = [miner EXCEPT !.self = mine(@, block),
                              !.since = Append(@, block.item)]
    /\ last' = [op |-> "mine", block |-> block]
    /\ UNCHANGED <<pc, input, tree, cave, mining>>

\* miner.clear_inventory().
ClearInventory ==
    /\ miner.pc = "ready"
    /\ Len(miner.handed) < MaxCleared
    /\ LET after == clear_inventory(miner.self)
       IN miner' = [miner EXCEPT !.self = after,
                                 !.handed = Append(@, [list  |-> after.returned,
                                                       since |-> miner.since]),
                                 !.since = <<>>]
    /\ last' = [op |-> "clear_inventory"]
    /\ UNCHANGED <<pc, input, tree, cave, mining>>

MinerNext ==
    \/ \E block \in Blocks : Mine(block)
    \/ ClearInventory

MinerSpec == MinerInit /\ [][MinerNext]_vars

\* ------------------------------------------------------- claim vocabulary
RECURSIVE height(_)
\* The number of nodes on the longest path from a node down to a leaf.
height(current) ==
    IF current = None THEN 0
    ELSE 1 + (IF height(Left(current)) >= height(Right(current))
              THEN height(Left(current)) ELSE height(Right(current)))

RECURSIVE size(_)
size(current) ==
    IF current = None THEN 0 ELSE 1 + size(Left(current)) + size(Right(current))

RECURSIVE keysOf(_)
keysOf(current) ==
    IF current = None THEN {}
    ELSE {Key(current)} \cup keysOf(Left(current)) \cup keysOf(Right(current))

RECURSIVE Ordered(_)
\* Every node has only smaller keys to its left and larger ones to its right.
Ordered(current) ==
    \/ current = None
    \/ /\ \A k \in keysOf(Left(current)) : k < Key(current)
       /\ \A k \in keysOf(Right(current)) : k > Key(current)
       /\ Ordered(Left(current))
       /\ Ordered(Right(current))

StrictlyAscending(pairs) ==
    \A i \in 1 .. Len(pairs) - 1 : pairs[i][1] < pairs[i + 1][1]

DistinctKeys(pairs) ==
    \A i, j \in 1 .. Len(pairs) : pairs[i][1] = pairs[j][1] => i = j

\* The least h with 2^h >= m, for m >= 1.
CeilLog2(m) == CHOOSE h \in 0 .. m : 2 ^ h >= m /\ (h = 0 \/ 2 ^ (h - 1) < m)

RECURSIVE AscendingByKey(_)
\* The pairs of a set with distinct keys, smallest key first.
AscendingByKey(S) ==
    IF S = {} THEN <<>>
    ELSE LET least == CHOOSE p \in S : \A q \in S : p[1] <= q[1]
         IN <<least>> \o AscendingByKey(S \ {least})

Range(f) == {f[i] : i \in DOMAIN f}

KeysIn(pairs) == [i \in 1 .. Len(pairs) |-> pairs[i][1]]

\* The state the constructor leaves when called on distinct keys.
BuiltFromDistinct ==
    /\ pc = "ready"
    /\ last.op = "__init__"
    /\ Len(last.elements) >= 1
    /\ DistinctKeys(last.elements)

\* ----------------------------------------------------------------- claims
\* C1: with monotone predicates, filter_keys returns exactly the pairs of
\* the in-order traversal that satisfy both predicates, in ascending key
\* order, each once.
C1_FilterExact ==
    (pc = "ready" /\ last.op = "filter_keys") =>
        last.out.items =
            SelectSeq(inorder(tree.root),
                      LAMBDA p : p[1] \in last.f1 /\ p[1] \in last.f2)

\* A filter on a mutated tree that keeps some entries, drops some, and
\* skips part of the tree.
C1_Witness ==
    /\ pc = "ready"
    /\ last.op = "filter_keys"
    /\ Len(last.out.items) >= 2
    /\ Len(last.out.items) < tree.length
    /\ Len(last.out.visited) < tree.length
    /\ height(tree.root) = tree.length

\* C2: built from n >= 1 distinct keys in any order, the tree has height
\* exactly ceil(log2(n + 1)).
C2_MinimalHeight ==
    BuiltFromDistinct => height(tree.root) = CeilLog2(Len(last.elements) + 1)

C2_Witness ==
    /\ BuiltFromDistinct
    /\ Len(last.elements) = 4
    /\ height(tree.root) = 3
    /\ ~StrictlyAscending(last.elements)

\* C3: after the build and any sequence of point inserts and deletes every
\* node has only smaller keys on its left and only larger keys on its
\* right, and the in-order traversal is strictly ascending.
C3_SearchOrder ==
    pc = "ready" => Ordered(tree.root) /\ StrictlyAscending(inorder(tree.root))

\* A delete has just left a chain of at least three nodes that starts by
\* going left: a shape that the constructor alone never leaves.
C3_Witness ==
    /\ pc = "ready"
    /\ last.op = "__delitem__"
    /\ last.raised = "none"
    /\ tree.length >= 3
    /\ height(tree.root) = tree.length
    /\ Left(tree.root) # None

\* C4: for a non-empty input with distinct keys the in-order traversal of
\* the built tree is the input sorted ascending by key, each pair with its
\* own item, and len(tree) is the number of input pairs.
C4_RoundTrip ==
    BuiltFromDistinct =>
        /\ inorder(tree.root) = AscendingByKey(Range(last.elements))
        /\ tree.length = Len(last.elements)

\* A reverse-sorted input of at least three pairs has been built.
C4_Witness ==
    /\ BuiltFromDistinct
    /\ Len(last.elements) >= 3
    /\ \A i \in 1 .. Len(last.elements) - 1 :
           last.elements[i][1] > last.elements[i + 1][1]

RECURSIVE MedianBuilt(_, _, _, _)
\* node is the lower-middle entry of sorted[start..end] (0-based), its left
\* subtree holds exactly [start, mid-1] and its right subtree [mid+1, end],
\* the right subtree is as large as the left or one larger; and so below.
MedianBuilt(node, sorted, start, end) ==
    IF start > end THEN node = None
    ELSE LET mid == start + ((end - start) \div 2)
         IN /\ node # None
            /\ <<Key(node), Item(node)>> = sorted[mid + 1]
            /\ inorder(Left(node)) = SubSeq(sorted, start + 1, mid)
            /\ inorder(Right(node)) = SubSeq(sorted, mid + 2, end + 1)
            /\ size(Right(node)) - size(Left(node)) \in {0, 1}
            /\ MedianBuilt(Left(node), sorted, start, mid - 1)
            /\ MedianBuilt(Right(node), sorted, mid + 1, end)

\* C5: in the built tree every node is the lower-middle median of its sorted
\* index range, with exactly the lower part of the range to its left and the
\* upper part to its right, so right size minus left size is 0 or 1.
C5_MedianNodes ==
    BuiltFromDistinct =>
        MedianBuilt(tree.root, last.sorted, 0, Len(last.sorted) - 1)

\* An even number of pairs: the root is the lower of the two middle entries.
C5_Witness ==
    /\ BuiltFromDistinct
    /\ Len(last.elements) = 4
    /\ size(Right(tree.root)) = size(Left(tree.root)) + 1

\* The constructor has run on the input of the concrete scenario.
ScenarioBuilt ==
    /\ pc = "ready"
    /\ last.op = "__init__"
    /\ last.elements = ScenarioElements

\* C6 as stated: on the scenario input the keys are sorted to [1,2,3,4,5]
\* and handed to the insert in the order [3,1,2,5,4].
C6_InsertOrderAsStated ==
    ScenarioBuilt =>
        /\ KeysIn(last.sorted) = <<1, 2, 3, 4, 5>>
        /\ last.inserted = <<3, 1, 2, 5, 4>>

\* C6 amended: on the scenario input the keys are sorted to [1,2,3,4,5] and
\* handed to the insert in the order [3,1,2,4,5].
C6_InsertOrder ==
    ScenarioBuilt =>
        /\ KeysIn(last.sorted) = <<1, 2, 3, 4, 5>>
        /\ last.inserted = <<3, 1, 2, 4, 5>>

C6_Witness == ScenarioBuilt /\ Len(last.inserted) = 5

\* C7 as stated: the constructor called on an empty sequence ends with an
\* error and never returns normally with an empty tree.
C7_EmptyInputFails ==
    (last.op = "__init__" /\ last.elements = <<>>) =>
        last.raised # "none" /\ pc = "failed"

\* C7 amended: the constructor called on an empty sequence returns normally,
\* without an error, and leaves the empty tree of length 0.
C7_EmptyInputBuildsEmptyTree ==
    (last.op = "__init__" /\ last.elements = <<>>) =>
        /\ last.raised = "none"
        /\ pc = "ready"
        /\ tree = EmptyTree
        /\ last.inserted = <<>>

C7_Witness == last.op = "__init__" /\ last.elements = <<>>

RECURSIVE RightSpine(_)
\* The keys met by walking from a node through right children only.
RightSpine(current) ==
    IF current = None THEN <<>> ELSE <<Key(current)>> \o RightSpine(Right(current))

IsPrefix(s, t) ==
    /\ Len(s) <= Len(t)
    /\ \A i \in 1 .. Len(s) : s[i] = t[i]

\* The tree the constructor builds from the scenario's keys 1..5.
ScenarioTree ==
    TreeNode(3, "c",
             TreeNode(1, "a", None, TreeNode(2, "b", None, None)),
             TreeNode(4, "d", None, TreeNode(5, "e", None, None)))

\* C8: on the tree built from keys 1..5 the filter (k > 10, k < 20) returns
\* nothing and visits only 3, 4, 5, the root and its right descendants; and
\* whenever filter_func1 is false at every key of the tree, the result is
\* empty and the visited nodes are one path from the root that never turns
\* left.
C8_EmptyRangePath ==
    (pc = "ready" /\ last.op = "filter_keys") =>
        /\ (tree.root = ScenarioTree /\ last.f1 = Above(10) /\ last.f2 = Below(20)) =>
               last.out.items = <<>> /\ last.out.visited = <<3, 4, 5>>
        /\ (last.f1 \cap keysOf(tree.root) = {}) =>
               /\ last.out.items = <<>>
               /\ Len(last.out.visited) >= (IF tree.root = None THEN 0 ELSE 1)
               /\ IsPrefix(last.out.visited, RightSpine(tree.root))

C8_Witness ==
    /\ pc = "ready"
    /\ last.op = "filter_keys"
    /\ tree.root = ScenarioTree
    /\ last.f1 = Above(10)
    /\ last.f2 = Below(20)
    /\ last.out.visited = <<3, 4, 5>>

RECURSIVE _build_subtree_aux_swapped(_, _, _, _)
\* _build_subtree_aux with its two recursive calls exchanged: the upper
\* range [mid+1, end] first, then the lower range [start, mid-1].
_build_subtree_aux_swapped(self, elements, start, end) ==
    LET called == call(self)
    IN IF start > end THEN return(called)
       ELSE LET mid    == (start + end) \div 2
                key    == elements[mid + 1][1]
                item   == elements[mid + 1][2]
                placed == place(called, key, item, mid)
                upper  == _build_subtree_aux_swapped(placed, elements, mid + 1, end)
                lower  == _build_subtree_aux_swapped(upper, elements, start, mid - 1)
            IN return(lower)

SwappedBuild(sorted) ==
    _build_subtree_aux_swapped(NewSelf, sorted, 0, Len(sorted) - 1)

\* C9: on a sorted sequence of distinct keys the build with the two
\* recursive calls exchanged leaves the same tree, node for node, as the
\* build in the code's order.
C9_CallOrderIrrelevant ==
    BuiltFromDistinct => SwappedBuild(last.sorted).tree = tree

\* The two builds inserted in different orders.
C9_Witness ==
    /\ BuiltFromDistinct
    /\ Len(last.sorted) >= 4
    /\ SwappedBuild(last.sorted).inserted # last.inserted
    /\ SwappedBuild(last.sorted).tree = tree

\* The blocks of the checklist in ascending ratio order.
StoredBlocks == [i \in 1 .. tree.length |-> inorder(tree.root)[i][2]]

Entries(self) == Range(inorder(self.root))

\* C11 as stated: remove_block(block) for a block that is not in the
\* checklist leaves the stored blocks and the length as they are; for a
\* block that is in the checklist it removes exactly that entry and the
\* length decreases by one.
C11_RemoveOnlyMember ==
    [][(pc = "ready" /\ last'.op = "remove_block") =>
          LET block == last'.block
          IN IF ~contains(tree, block)
             THEN tree' = tree
             ELSE /\ Entries(tree') = Entries(tree) \ {<<ratio(block), block>>}
                  /\ tree'.length = tree.length - 1]_vars

\* C15: add_block(block) leaves the checklist as it is when a block with
\* the same ratio is stored; otherwise the length grows by one, the block is
\* in the checklist afterwards, and every other entry is as it was.
C15_AddBlockFrame ==
    [][(pc = "ready" /\ last'.op = "add_block") =>
          LET block == last'.block
          IN IF contains_aux(tree.root, ratio(block))
             THEN tree' = tree
             ELSE /\ tree'.length = tree.length + 1
                  /\ contains(tree', block)
                  /\ Entries(tree') = Entries(tree) \cup {<<ratio(block), block>>}
                  /\ Cardinality(Entries(tree')) = Cardinality(Entries(tree)) + 1]_vars

\* add_block has been called with a block whose ratio another block holds,
\* and that other block is still the one stored.
C15_Witness ==
    /\ pc = "ready"
    /\ last.op = "add_block"
    /\ contains_aux(tree.root, ratio(last.block))
    /\ ~contains(tree, last.block)
    /\ tree.length >= 2

\* A subtree the traversal did not enter holds no key that both predicates
\* accept.
NothingLost(node, f1, f2) == keysOf(node) \cap f1 \cap f2 = {}

RECURSIVE PrunedSoundly(_, _, _, _)
\* Below an entered node: a child was entered only where the node's key
\* passes the predicate of that side, a child that was not entered heads a
\* subtree with no qualifying key, and the same holds below each entered
\* child.  entered is the set of keys of the nodes the traversal was called
\* with.
PrunedSoundly(node, f1, f2, entered) ==
    IF node = None THEN TRUE
    ELSE /\ \A side \in {"left", "right"} :
              LET child == IF side = "left" THEN Left(node) ELSE Right(node)
                  pred  == IF side = "left" THEN f1 ELSE f2
              IN child # None =>
                    IF Key(child) \in entered
                    THEN /\ Key(node) \in pred
                         /\ PrunedSoundly(child, f1, f2, entered)
                    ELSE /\ NothingLost(child, f1, f2)
                         /\ keysOf(child) \cap entered = {}

\* C13: on every tree and every pair of monotone predicates,
\* _filter_traverse_aux enters a left subtree only where filter_func1 holds
\* of the node's key and a right subtree only where filter_func2 does, and
\* no entry of a subtree it skips passes both predicates.
C13_PruningSound ==
    (pc = "ready" /\ last.op = "filter_keys") =>
        /\ tree.root # None => Key(tree.root) \in Range(last.out.visited)
        /\ PrunedSoundly(tree.root, last.f1, last.f2, Range(last.out.visited))

\* A query that returned something and skipped a subtree on either side:
\* one with keys below every returned key and one with keys above them.
C13_Witness ==
    /\ pc = "ready"
    /\ last.op = "filter_keys"
    /\ last.out.items # <<>>
    /\ \E low, high \in keysOf(tree.root) \ Range(last.out.visited) :
          /\ low < last.out.items[1][1]
          /\ high > last.out.items[Len(last.out.items)][1]

\* C14: for every sorted sequence, of any length n >= 0 and with or without
\* repeated keys, _build_subtree_aux(elements, 0, n-1) returns with every
\* frame closed, has chosen every index of 0..n-1 as mid exactly once and
\* no other index, has made exactly n inserts, and never had more than
\* ceil(log2(n+1)) + 1 frames open.
C14_BuildRecursion ==
    (pc \in {"ready", "failed"} /\ last.op = "__init__") =>
        LET n == Len(last.sorted)
        IN /\ last.depth = 0
           /\ Len(last.mids) = n
           /\ Range(last.mids) = 0 .. n - 1
           /\ Len(last.inserted) = n
           /\ last.deepest <= CeilLog2(n + 1) + 1

\* A build of five pairs that reached the depth bound, 4 frames.
C14_Witness ==
    /\ pc = "ready"
    /\ last.op = "__init__"
    /\ Len(last.sorted) = 5
    /\ last.mids = <<2, 0, 1, 3, 4>>
    /\ last.deepest = CeilLog2(6) + 1

\* The state a constructor call leaves.
Built == pc = "ready" /\ last.op = "__init__"

\* The largest member of a non-empty set of numbers.
Greatest(S) == CHOOSE x \in S : \A y \in S : y <= x

\* One node per distinct key of the input, and a length that counts them.
OneNodePerKey ==
    /\ keysOf(tree.root) = Range(KeysIn(last.elements))
    /\ size(tree.root) = Cardinality(Range(KeysIn(last.elements)))
    /\ tree.length = Cardinality(Range(KeysIn(last.elements)))

\* The tree's item for a key is the item of the last input pair with the key.
LastInputWins ==
    \A k \in Range(KeysIn(last.elements)) :
        LET at == Greatest({i \in 1 .. Len(last.elements) : last.elements[i][1] = k})
        IN getitem_aux(tree.root, k) = last.elements[at][2]

\* The tree's item for a key is the item of the pair with the key that the
\* recursion handed to the substrate last.
LastInsertWins ==
    \A k \in Range(KeysIn(last.elements)) :
        LET at == Greatest({i \in 1 .. Len(last.mids) :
                               last.sorted[last.mids[i] + 1][1] = k})
        IN getitem_aux(tree.root, k) = last.sorted[last.mids[at] + 1][2]

\* C19 as stated: a tree built from pairs with repeated keys holds one node
\* per distinct key, its length is the number of distinct keys, and each key
\* stores the item of the last input pair carrying it.
C19_LastWriteWinsAsStated == Built => OneNodePerKey /\ LastInputWins

\* C19: a tree built from pairs with repeated keys holds one node per
\* distinct key, its length is the number of distinct keys, and each key
\* stores the item of the pair that the mid-first recursion inserts last
\* among the pairs carrying it in the stably sorted input.
C19_LastInsertWins == Built => OneNodePerKey /\ LastInsertWins

\* A build from three pairs, two of them with the same key, that stores the
\* item of the first of the two.
C19_Witness ==
    /\ Built
    /\ Len(last.elements) = 3
    /\ ~DistinctKeys(last.elements)
    /\ ~LastInputWins

\* A predicate that is not monotone in either direction: it holds of a key
\* strictly between two keys it fails of, or fails of one between two it
\* holds of.
NonMonotone(f) ==
    \E a, b, c \in Keys : a < b /\ b < c /\ ((a \in f) = (c \in f)) /\ ((a \in f) # (b \in f))

\* C20: for any two predicates, monotone or not, filter_keys leaves the
\* tree as it is, and every pair it returns is an entry of the tree of whose
\* key both predicates hold; the pairs come in strictly ascending key order,
\* so none comes twice.
C20_SoundForAnyPredicates ==
    [][(pc = "ready" /\ last'.op = "filter_keys") =>
          /\ tree' = tree
          /\ \A i \in 1 .. Len(last'.out.items) :
                LET pair == last'.out.items[i]
                IN /\ pair \in Entries(tree)
                   /\ pair[1] \in last'.f1
                   /\ pair[1] \in last'.f2
          /\ StrictlyAscending(last'.out.items)]_vars

\* A query with a non-monotone filter_func1 that returned some pair and
\* missed an entry of which both predicates hold.
C20_Witness ==
    /\ pc = "ready"
    /\ last.op = "filter_keys"
    /\ NonMonotone(last.f1)
    /\ last.out.items # <<>>
    /\ \E pair \in Entries(tree) \ Range(last.out.items) :
          pair[1] \in last.f1 /\ pair[1] \in last.f2

\* C12: after any sequence of mine and clear_inventory calls, the list
\* that each clear_inventory returned holds exactly the items of the blocks
\* mined between the clear before it (or construction) and that call, in
\* mining order, at its return and after every later call; the inventory is
\* empty right after a clear_inventory and holds the items mined after it.
C12_ClearHandsOver ==
    miner.pc = "ready" =>
        /\ \A i \in 1 .. Len(miner.handed) :
              miner.self.heap[miner.handed[i].list] = miner.handed[i].since
        /\ miner.self.heap[miner.self.inventory] = miner.since
        /\ last.op = "clear_inventory" => miner.self.heap[miner.self.inventory] = <<>>

\* Two clears that each returned something, with a block mined after each.
C12_Witness ==
    /\ miner.pc = "ready"
    /\ Len(miner.handed) = 2
    /\ Len(miner.handed[1].since) = 2
    /\ miner.handed[1].since[1] # miner.handed[1].since[2]
    /\ Len(miner.handed[2].since) = 1
    /\ last.op = "clear_inventory"

RECURSIVE Explore(_, _, _)
RECURSIVE ExploreEach(_, _, _, _)
\* The recursive depth-first pre-order: a node that is not in the order
\* yet joins it and then its neighbours are explored, neighbours[0] first.
Explore(neighbours, node, order) ==
    IF node \in Range(order) THEN order
    ELSE ExploreEach(neighbours, neighbours[node], 1, Append(order, node))

ExploreEach(neighbours, list, i, order) ==
    IF i > Len(list) THEN order
    ELSE ExploreEach(neighbours, list, i + 1, Explore(neighbours, list[i], order))

RECURSIVE BlocksAlong(_)
\* The blocks of the nodes of a sequence, concatenated.
BlocksAlong(order) ==
    IF order = <<>> THEN <<>>
    ELSE NodeBlocks(Head(order)) \o BlocksAlong(Tail(order))

\* C16: dfs_explore_cave processes the nodes in the order of the recursive
\* depth-first pre-order from the entrance that takes neighbours in index
\* order: at every point of the loop the nodes processed are a prefix of
\* that order, at the return they are all of it, and blocks_found is the
\* concatenation of their blocks in that order.
C16_SameAsRecursivePreorder ==
    cave.pc \in {"loop", "done"} =>
        LET reference == Explore(cave.neighbours, Entrance, <<>>)
        IN /\ IsPrefix(cave.order, reference)
           /\ cave.blocks_found = BlocksAlong(cave.order)
           /\ cave.pc = "done" => cave.order = reference

\* A finished run in which the stack once held a node twice: the entrance
\* leads to the tunnel and the shaft, and the tunnel to the shaft again.
C16_Witness ==
    /\ cave.pc = "done"
    /\ cave.neighbours["entrance"] = <<"tunnel", "shaft">>
    /\ cave.neighbours["tunnel"] = <<"shaft", "entrance">>
    /\ cave.order = <<"entrance", "tunnel", "shaft">>

RECURSIVE Reachable(_, _)
\* The names reachable from a set of names along neighbour links.
Reachable(neighbours, from) ==
    LET next == from \cup UNION {Range(neighbours[n]) : n \in from}
    IN IF next = from THEN from ELSE Reachable(neighbours, next)

\* How often x occurs in a sequence.
Occurrences(seq, x) == Cardinality({i \in 1 .. Len(seq) : seq[i] = x})

\* The result holds every block of every reachable node once and no block
\* of any other node.
ExactlyTheReachable ==
    \A n \in CaveNames : \A b \in Range(NodeBlocks(n)) :
        Occurrences(cave.blocks_found, b) =
            IF n \in Reachable(cave.neighbours, {Entrance}) THEN 1 ELSE 0

\* C17: on every cave, cycles and self-loops included, dfs_explore_cave
\* comes to its return, and the list it returns holds the blocks of every
\* node reachable from the entrance exactly once and of no other node.
C17_TerminatesWithReachable == <>(cave.pc = "done" /\ ExactlyTheReachable)

\* A finished run on a cave with a self-loop at the entrance, a cycle
\* between the entrance and the tunnel, and a shaft that cannot be reached.
C17_Witness ==
    /\ cave.pc = "done"
    /\ cave.neighbours["entrance"] = <<"entrance", "tunnel">>
    /\ cave.neighbours["tunnel"] = <<"entrance", "tunnel">>
    /\ cave.neighbours["shaft"] = <<"entrance">>
    /\ cave.blocks_found = <<"stone", "iron", "gold">>

RECURSIVE TotalHardness(_, _)
\* The hardnesses of the blocks at the given positions, added up.
TotalHardness(blocks, positions) ==
    IF positions = <<>> THEN 0
    ELSE blocks[Head(positions)].hardness + TotalHardness(blocks, Tail(positions))

Running == mining.pc \in {"loop", "done"}

\* No position is considered twice, none is mined that was not considered,
\* and the ratios come in non-increasing order.
EachOnceInRatioOrder ==
    /\ \A i, j \in 1 .. Len(mining.considered) :
          mining.considered[i] = mining.considered[j] => i = j
    /\ \A i, j \in 1 .. Len(mining.mined) :
          mining.mined[i] = mining.mined[j] => i = j
    /\ Range(mining.mined) \subseteq Range(mining.considered)
    /\ \A i \in 1 .. Len(mining.considered) - 1 :
          ratio(mining.blocks[mining.considered[i]])
              >= ratio(mining.blocks[mining.considered[i + 1]])
    /\ miner.self.heap[miner.self.inventory] =
          [k \in 1 .. Len(mining.mined) |-> mining.blocks[mining.mined[k]].item]

\* The time spent is within the time given and the remaining time is not
\* negative.
WithinTime ==
    /\ TotalHardness(mining.blocks, mining.mined) <= mining.time_in_seconds
    /\ mining.remaining_time >= 0

\* C18 as stated: for every list of blocks and every integer
\* time_in_seconds, profit_mining terminates, mines each block at most once
\* in non-increasing ratio order, never spends more than time_in_seconds or
\* lets remaining_time go negative, and mines nothing when time_in_seconds
\* is 0 or less.
C18_WithinAnyTimeAsStated ==
    /\ [](Running => /\ EachOnceInRatioOrder
                     /\ WithinTime
                     /\ mining.time_in_seconds <= 0 => mining.mined = <<>>)
    /\ <>(mining.pc = "done")

\* C18: for every list of blocks and every integer time_in_seconds,
\* profit_mining terminates and mines each block at most once in
\* non-increasing ratio order; remaining_time is time_in_seconds less the
\* hardness mined so far; with time_in_seconds >= 0 the hardness mined is at
\* most time_in_seconds and remaining_time is never negative; with
\* time_in_seconds <= 0 nothing is mined and remaining_time stays at
\* time_in_seconds, which is negative when time_in_seconds is.
C18_WithinGivenTime ==
    /\ [](Running =>
            /\ EachOnceInRatioOrder
            /\ mining.remaining_time =
                  mining.time_in_seconds - TotalHardness(mining.blocks, mining.mined)
            /\ mining.time_in_seconds >= 0 => WithinTime
            /\ mining.time_in_seconds <= 0 =>
                  /\ mining.mined = <<>>
                  /\ mining.remaining_time = mining.time_in_seconds)
    /\ <>(mining.pc = "done")

\* A finished run that skipped a block too hard for the time left, mined
\* the next one and used the time up.
C18_Witness ==
    /\ mining.pc = "done"
    /\ mining.time_in_seconds > 0
    /\ Len(mining.considered) = 2
    /\ mining.mined = <<mining.considered[2]>>
    /\ mining.remaining_time = 0
    /\ miner.since # <<>>

====
